---- MODULE Spec2Model ----
(***************************************************************************)
(* The run coordinator of us.proxy.sune.chat (run.js, the revision with    *)
(* MAX_RUN_MS), its in-memory KV store and the streaming contract of the   *)
(* provider adapters, for one uid.                                         *)
(*                                                                         *)
(* Texts are sequences of tokens; the length of a text is its number of    *)
(* tokens.  The failure trailer "\n\nRun failed: <err>" is one token.      *)
(* A step of the model is one run-to-completion callback of the server:    *)
(* a socket event, a timer, the sweep, an HTTP poll, or one resumption of  *)
(* an adapter after an await.                                              *)
(***************************************************************************)
EXTENDS Integers, Sequences, FiniteSets, TLC

VARIABLES
    objs,       \* every Run object created so far (objects outlive the Map)
    cur,        \* index in objs of runs.get(uid); 0 when the Map has no entry
    kv,         \* the KV store: snapshots, deltas, prompts
    ads,        \* the invocations of beginStream, in spawn order
    connected,  \* the sockets of the uid that are open
    overdue,    \* Date.now() - startedAt of the latest begin exceeds MAX_RUN_MS
    out,        \* what the last step sent: frames per socket, notifications
    last,       \* the seq socket Obs is served up to in its current window
    told        \* Obs was in the socket set when the present run became terminal

vars == <<objs, cur, kv, ads, connected, overdue, out, last, told>>

(***************************************************************************)
(* Bounds of the model.                                                    *)
(***************************************************************************)
\* text length that triggers a flush; run.js sets 3400, scaled to tokens
BATCH_BYTES == 2
\* how much a behaviour may build in all, a Run object and a run begun
\* counting two, a chunk or event delivered to an adapter one
Budget == 6

Uid == "u1"
\* the rids a client sends; a client may use its uid as rid
Rids == {"r1", "u1"}
Sockets == {"s1", "s2"}
\* the socket whose received frames the model follows (any socket: they are alike)
Obs == "s1"
Ntfy == "ntfy"
Null == "<null>"
NoSeq == -2

\* typeof/truthiness of msg.after that handleMessage meets
Afters ==
    {[kind |-> "undefined", v |-> 0], [kind |-> "null", v |-> 0]}
        \cup [kind : {"number"}, v : {0}]
NoAfter == [kind |-> "undefined", v |-> 0]

StreamFailed == "stream_failed"
TimedOutMsg == "Run timed out after 9 minutes."
Unexpected == "The run was terminated unexpectedly."

\* what an adapter invocation can throw: name and message of the error
Errors ==
    { [name |-> "Error", message |-> "boom"],
      [name |-> "Error", message |-> ""],
      [name |-> "AbortError", message |-> "The operation was aborted." ] }

\* the arguments of an onDelta call: text and images
Emits ==
    { [text |-> <<"a">>, images |-> <<>>],
      [text |-> <<>>, images |-> <<"img">>] }

\* the text events of the SDK adapters
TextEmits == [text : {<<"a">>, <<"b">>}, images : {<<>>}]

\* the providers of the begin messages: the sse adapters of providers.js
Providers == {"openrouter"}

(***************************************************************************)
(* Values.                                                                 *)
(***************************************************************************)
\* /abort/i.test(msg), on the messages of the model
AbortRe(msg) == msg \in {"aborted", "The operation was aborted."}

\* /timed out/.test(msg), on the messages of the model
TimedOutRe(msg) == msg = TimedOutMsg

\* `\n\nRun failed: ${err}`
Trailer(err) == <<"Run failed: " \o err>>

Frame(type, seq, text, images, message) ==
    [type |-> type, seq |-> seq, text |-> text, images |-> images, message |-> message]

DeltaFrame(item) == Frame("delta", item.seq, item.text, item.images, Null)
DoneFrame == Frame("done", NoSeq, <<>>, <<>>, Null)
ErrFrame(message) == Frame("err", NoSeq, <<>>, <<>>, message)
Note(message) == Frame("notify", NoSeq, <<>>, <<>>, message)

NoOut == [w \in Sockets \cup {Ntfy} |-> <<>>]

\* the object ensure() builds when neither the Map nor the KV store has one
FreshRun(rid) ==
    [rid |-> rid, seq |-> -1, phase |-> "idle", error |-> Null, sockets |-> {},
     pending |-> <<>>, pendingImages |-> <<>>, flushTimer |-> FALSE,
     controller |-> 0, startedAt |-> 0, timeoutTimer |-> FALSE]

\* the object meta() builds from a snapshot
RestoredRun(rid, snap) ==
    [rid |-> rid, seq |-> snap.seq, phase |-> snap.phase, error |-> snap.error,
     sockets |-> {}, pending |-> <<>>, pendingImages |-> <<>>, flushTimer |-> FALSE,
     controller |-> 0, startedAt |-> snap.startedAt, timeoutTimer |-> FALSE]

EmptyKv == [run |-> <<>>, delta |-> <<>>, prompt |-> <<>>]

\* kv.get(`run:${rid}`): the snapshot, or Null's stand-in <<>> when absent
HasSnap(store, rid) == rid \in DOMAIN store.run

(***************************************************************************)
(* The coordinator's functions, on st = [r, kv, out, ads]: the Run object  *)
(* they are called with, the store, the output of the step, and the        *)
(* adapter invocations (whose abort signals stop and fail raise).          *)
(***************************************************************************)
Send(st, ws, obj) == [st EXCEPT !.out[ws] = Append(@, obj)]

\* a bcast that reaches nobody
BcastNobody(st, obj) == st

Bcast(st, obj) ==
    [st EXCEPT !.out = [w \in DOMAIN @ |->
                          IF w \in st.r.sockets THEN Append(@[w], obj) ELSE @[w]]]

Notify(st, message) == [st EXCEPT !.out[Ntfy] = Append(@, Note(message))]

SaveSnapshot(st) ==
    LET snap == [rid |-> st.r.rid, seq |-> st.r.seq, phase |-> st.r.phase,
                 error |-> st.r.error, startedAt |-> st.r.startedAt]
    IN [st EXCEPT !.kv.run = (st.r.rid :> snap) @@ @]

\* the key `delta:${rid}:${padStart(seq)}`: one key per rid and seq
DeltaKey(rid, seq) == <<rid, seq>>

Flush(st, force) ==
    LET s1 == [st EXCEPT !.r.flushTimer = FALSE]
        item == [seq |-> s1.r.seq + 1, text |-> s1.r.pending,
                 images |-> s1.r.pendingImages]
        s2 == IF s1.r.pending # <<>> \/ Len(s1.r.pendingImages) > 0
              THEN LET s3 == [s1 EXCEPT !.r.seq = item.seq,
                                        !.kv.delta = (DeltaKey(s1.r.rid, item.seq) :> item) @@ @]
                       s4 == Bcast(s3, DeltaFrame(item))
                   IN [s4 EXCEPT !.r.pending = <<>>, !.r.pendingImages = <<>>]
              ELSE s1
    IN IF force THEN SaveSnapshot(s2) ELSE s2

\* queueDelta as it would be with the timer as its only trigger
QueueDeltaTimerOnly(st, text, images) ==
    IF text = <<>> /\ Len(images) = 0 THEN st
    ELSE [st EXCEPT !.r.pending = @ \o text,
                    !.r.pendingImages = @ \o images,
                    !.r.flushTimer = TRUE]

\* queueDelta as it would be if it armed no timer
QueueDeltaUnarmed(st, text, images) ==
    IF text = <<>> /\ Len(images) = 0 THEN st
    ELSE LET s1 == [st EXCEPT !.r.pending = @ \o text,
                              !.r.pendingImages = @ \o images]
         IN IF Len(s1.r.pending) >= BATCH_BYTES \/ Len(s1.r.pendingImages) > 0
            THEN Flush(s1, FALSE)
            ELSE s1

QueueDelta(st, text, images) ==
    IF text = <<>> /\ Len(images) = 0 THEN st
    ELSE LET s1 == [st EXCEPT !.r.pending = @ \o text,
                              !.r.pendingImages = @ \o images]
         IN IF Len(s1.r.pending) >= BATCH_BYTES \/ Len(s1.r.pendingImages) > 0
            THEN Flush(s1, FALSE)
            ELSE [s1 EXCEPT !.r.flushTimer = TRUE]

ClearTimeoutTimer(st) == [st EXCEPT !.r.timeoutTimer = FALSE]

\* r.controller?.abort(): raises the signal of the invocation spawned last
Abort(st) ==
    IF st.r.controller = 0 THEN st
    ELSE [st EXCEPT !.ads[st.r.controller].aborted = TRUE]

\* stop as it would be without its guard
StopUnguarded(st) ==
    LET s1 == Flush(ClearTimeoutTimer(st), TRUE)
        s2 == [s1 EXCEPT !.r.phase = "done", !.r.error = Null]
        s3 == SaveSnapshot(Abort(s2))
        s4 == Bcast(s3, DoneFrame)
    IN Notify(s4, "ended")

Stop(st) ==
    IF st.r.phase # "running" THEN st
    ELSE LET s1 == Flush(ClearTimeoutTimer(st), TRUE)
             s2 == [s1 EXCEPT !.r.phase = "done", !.r.error = Null]
             s3 == SaveSnapshot(Abort(s2))
             s4 == Bcast(s3, DoneFrame)
         IN Notify(s4, "ended")

\* fail as it would be with the buffer flushed before the trailer is queued
FailFlushFirst(st, message) ==
    IF st.r.phase # "running" THEN st
    ELSE LET err == IF message \in {"", Null} THEN StreamFailed ELSE message
             s0 == Flush(ClearTimeoutTimer(st), FALSE)
             s1 == QueueDelta(s0, Trailer(err), <<>>)
             s2 == Flush(s1, TRUE)
             s3 == [s2 EXCEPT !.r.phase = "error", !.r.error = err]
             s4 == SaveSnapshot(Abort(s3))
             s5 == Bcast(s4, ErrFrame(s4.r.error))
         IN Notify(s5, "failed")

Fail(st, message) ==
    IF st.r.phase # "running" THEN st
    ELSE LET err == IF message \in {"", Null} THEN StreamFailed ELSE message
             s1 == QueueDelta(ClearTimeoutTimer(st), Trailer(err), <<>>)
             s2 == Flush(s1, TRUE)
             s3 == [s2 EXCEPT !.r.phase = "error", !.r.error = err]
             s4 == SaveSnapshot(Abort(s3))
             s5 == Bcast(s4, ErrFrame(s4.r.error))
         IN Notify(s5, "failed")

\* the items under the keys `delta:${rid}:*`
DeltaItems(store, rid) == {store.delta[k] : k \in {k \in DOMAIN store.delta : k[1] = rid}}

RECURSIVE SortBySeq(_)
SortBySeq(S) ==
    IF S = {} THEN <<>>
    ELSE LET m == CHOOSE x \in S : \A y \in S : x.seq <= y.seq
         IN <<m>> \o SortBySeq(S \ {m})

RECURSIVE Reverse(_)
Reverse(q) == IF q = <<>> THEN <<>> ELSE Reverse(Tail(q)) \o <<Head(q)>>

\* getDeltas without its sort, the keys coming newest first
GetDeltasUnsorted(store, rid) == Reverse(SortBySeq(DeltaItems(store, rid)))

GetDeltas(store, rid) == SortBySeq(DeltaItems(store, rid))

RECURSIVE ReplayDeltas(_, _, _, _)
ReplayDeltas(st, ws, deltas, after) ==
    IF deltas = <<>> THEN st
    ELSE ReplayDeltas(IF Head(deltas).seq > after THEN Send(st, ws, DeltaFrame(Head(deltas)))
                      ELSE st,
                      ws, Tail(deltas), after)

\* a replay that sends the deltas and no terminal frame
ReplayDeltasOnly(st, ws, after) == ReplayDeltas(st, ws, GetDeltas(st.kv, st.r.rid), after)

Replay(st, ws, after) ==
    LET s1 == ReplayDeltas(st, ws, GetDeltas(st.kv, st.r.rid), after)
    IN IF s1.r.phase = "done" THEN Send(s1, ws, DoneFrame)
       ELSE IF s1.r.phase \in {"error", "evicted"}
            THEN Send(s1, ws, ErrFrame(IF s1.r.error \in {Null, ""} THEN Unexpected
                                       ELSE s1.r.error))
            ELSE s1

(***************************************************************************)
(* The Map `runs` and the objects it holds.                                *)
(***************************************************************************)
\* meta(uid): the Map's object, else one rebuilt from the snapshot `run:${uid}`
Meta(os, c, store) ==
    IF c # 0 THEN [objs |-> os, cur |-> c]
    ELSE IF HasSnap(store, Uid)
         THEN [objs |-> Append(os, RestoredRun(Uid, store.run[Uid])), cur |-> Len(os) + 1]
         ELSE [objs |-> os, cur |-> 0]

\* ensure(uid): meta(uid), else a fresh idle object whose rid is the uid
Ensure(os, c, store) ==
    LET m == Meta(os, c, store)
    IN IF m.cur # 0 THEN m
       ELSE [objs |-> Append(os, FreshRun(Uid)), cur |-> Len(os) + 1]

RECURSIVE Reads(_)
\* the reads and events delivered to the invocations of a
Reads(a) == IF a = <<>> THEN 0 ELSE Head(a).n + Reads(Tail(a))

\* what the behaviour has built so far
Used == 2 * Len(objs) + 2 * Len(ads) + Reads(ads)

\* there is room within n for building cost more
Room(n, cost) == Used + cost <= n

\* ensure(uid) finds the Run in the Map, or there is room to build one
MayEnsure(n) == cur # 0 \/ Room(n, 2)

\* meta(uid) finds the Run in the Map or no snapshot, or there is room to rebuild
MayPoll(n) == cur # 0 \/ ~HasSnap(kv, Uid) \/ Room(n, 2)

St(os, o) == [r |-> os[o], kv |-> kv, out |-> NoOut, ads |-> ads]

\* seq of the last delta frame among fs, or none
LastDelta(fs) ==
    LET D == {i \in 1 .. Len(fs) : fs[i].type = "delta"}
    IN IF D = {} THEN NoSeq ELSE fs[CHOOSE i \in D : \A j \in D : j <= i].seq

\* The window of socket Obs after a step that sent st.out.  win = "reset": the
\* socket was opened or a new run started; "sync": a replay served Obs up to the
\* Run's seq; "keep": the last live delta frame, if any, extends the window.
NextLast(st, win) ==
    IF win = "sync" THEN st.r.seq
    ELSE IF LastDelta(st.out[Obs]) # NoSeq THEN LastDelta(st.out[Obs])
    ELSE IF win = "reset" THEN NoSeq ELSE last

\* Whether Obs has been told, by the broadcast of stop or fail, that the present
\* run is over: r is the Run before the step, st.r after it.
NextTold(r, st, win) ==
    IF win = "reset" THEN FALSE
    ELSE IF r.phase = "running" /\ st.r.phase \in {"done", "error"} /\ Obs \in st.r.sockets
         THEN TRUE
         ELSE told

\* the step wrote st back to object o of os
Commit(os, c, o, st, win) ==
    /\ objs' = [os EXCEPT ![o] = st.r]
    /\ cur' = c
    /\ kv' = st.kv
    /\ ads' = st.ads
    /\ out' = st.out
    /\ last' = NextLast(st, win)
    /\ told' = NextTold(os[o], st, win)

Init ==
    /\ objs = <<>>
    /\ cur = 0
    /\ kv = EmptyKv
    /\ ads = <<>>
    /\ connected = {}
    /\ overdue = FALSE
    /\ out = NoOut
    /\ last = NoSeq
    /\ told = FALSE

(***************************************************************************)
(* Socket open and close (index.js), addSocket and removeSocket.           *)
(***************************************************************************)
AddSocket(ws) ==
    /\ ws \notin connected
    /\ LET e == Ensure(objs, cur, kv)
           st == [St(e.objs, e.cur) EXCEPT !.r.sockets = @ \cup {ws}]
       IN Commit(e.objs, e.cur, e.cur, st, IF ws = Obs THEN "reset" ELSE "keep")
    /\ connected' = connected \cup {ws}
    /\ UNCHANGED overdue

\* a removeSocket that leaves the socket in the Run's set
RemoveSocketKept(ws) ==
    /\ ws \in connected
    /\ connected' = connected \ {ws}
    /\ out' = NoOut
    /\ last' = IF ws = Obs THEN NoSeq ELSE last
    /\ told' = IF ws = Obs THEN FALSE ELSE told
    /\ UNCHANGED <<objs, cur, kv, ads, overdue>>

RemoveSocket(ws) ==
    /\ ws \in connected
    /\ IF cur # 0
       THEN objs' = [objs EXCEPT ![cur].sockets = @ \ {ws}]
       ELSE objs' = objs
    /\ connected' = connected \ {ws}
    /\ out' = NoOut
    /\ last' = IF ws = Obs THEN NoSeq ELSE last
    /\ told' = IF ws = Obs THEN FALSE ELSE told
    /\ UNCHANGED <<cur, kv, ads, overdue>>

(***************************************************************************)
(* handleMessage.  msg = [type, rid, valid, after, provider]: valid says   *)
(* that apiKey is present and the body has a non-empty messages array; a   *)
(* missing rid is "".                                                      *)
(***************************************************************************)
\* the conversion of msg.after with 0 for its default
AfterOfZero(after) == IF after.kind = "number" THEN after.v ELSE 0

\* Number.isFinite(+after) ? +after : -1
AfterOf(after) ==
    IF after.kind = "undefined" THEN -1
    ELSE IF after.kind = "null" THEN 0
    ELSE after.v

\* the sse adapters first await fetch, then read isRunning(); the SDK adapters
\* first await an event
FirstPc(provider) == IF provider \in {"openai", "claude"} THEN "read" ELSE "check"

Invocation(o, rid, provider) ==
    [obj |-> o, rid |-> rid, kind |-> provider, pc |-> FirstPc(provider),
     aborted |-> FALSE, n |-> 0, emitted |-> <<>>, buf |-> <<>>, wire |-> <<>>]

(***************************************************************************)
(* sanitizeMessages.  A string is a sequence of characters, " " standing   *)
(* for white space.  The content of a message is a string, a list of       *)
(* parts, or something else (null, a number, an object); a part has a type *)
(* and may have a text (has), a string.                                    *)
(***************************************************************************)
\* !s.trim(): the string is empty or all white space
Blank(s) == \A i \in 1 .. Len(s) : s[i] = " "

StringContent(s) == [kind |-> "string", s |-> s, parts |-> <<>>]
ListContent(parts) == [kind |-> "list", s |-> <<>>, parts |-> parts]
\* a content that is neither a string nor an array: null or undefined, an object
OtherContent(kind) == [kind |-> kind, s |-> <<>>, parts |-> <<>>]

\* { type: 'text', text: '.' }
DotPart == [type |-> "text", has |-> TRUE, text |-> <<".">>]

\* p.type !== 'text' || (p.text && p.text.trim().length > 0)
KeepPart(p) == p.type # "text" \/ (p.has /\ p.text # <<>> /\ ~Blank(p.text))

RECURSIVE FilterParts(_)
FilterParts(parts) ==
    IF parts = <<>> THEN <<>>
    ELSE (IF KeepPart(Head(parts)) THEN <<Head(parts)>> ELSE <<>>)
            \o FilterParts(Tail(parts))

\* the content sanitizeMessages gives a message in place of content
SanitizeContent(content) ==
    IF content.kind = "string"
    THEN IF Blank(content.s) THEN StringContent(<<".">>) ELSE content
    ELSE IF content.kind = "list"
         THEN LET kept == FilterParts(content.parts)
              IN IF Len(kept) = 0 \/ ~\E i \in 1 .. Len(kept) : kept[i].type = "text"
                 THEN ListContent(Append(kept, DotPart))
                 ELSE ListContent(kept)
         ELSE content

\* messages.map(m => ({ ...m, content })), on an array
SanitizeMessages(messages) ==
    [i \in 1 .. Len(messages) |-> [messages[i] EXCEPT !.content = SanitizeContent(@)]]

\* the messages array of a begin whose messages the model does not spell out
PlainMessages == <<[role |-> "user", content |-> StringContent(<<"x">>)]>>

\* body.messages of a begin that has one
MessagesOf(msg) == IF "messages" \in DOMAIN msg THEN msg.messages ELSE PlainMessages

\* lines 235-251: the begin that starts a run
BeginRun(st, o, msg) ==
    LET s1 == [st EXCEPT !.r.rid = msg.rid, !.r.seq = -1, !.r.phase = "running",
                         !.r.error = Null, !.r.pending = <<>>, !.r.pendingImages = <<>>,
                         !.r.controller = Len(st.ads) + 1, !.r.startedAt = 1,
                         !.r.timeoutTimer = TRUE,
                         !.kv.prompt = (msg.rid :> SanitizeMessages(MessagesOf(msg))) @@ @]
        s2 == SaveSnapshot(s1)
    IN [s2 EXCEPT !.ads = Append(@, Invocation(o, msg.rid, msg.provider))]

\* the branches of handleMessage without the busy check of lines 225-228
BranchNoBusy(r, msg) ==
    IF msg.type = "stop" THEN "stop"
    ELSE IF msg.type # "begin" THEN "bad_type"
    ELSE IF msg.rid = "" \/ ~msg.valid THEN "missing_fields"
    ELSE IF msg.rid = r.rid /\ r.phase # "idle" THEN "replay"
    ELSE "start"

\* the branches of handleMessage without the checks of lines 210-221
BranchUnchecked(r, msg) ==
    IF msg.type = "stop" THEN "stop"
    ELSE IF r.phase = "running" /\ msg.rid # r.rid THEN "busy"
    ELSE IF msg.rid = r.rid /\ r.phase # "idle" THEN "replay"
    ELSE "start"

\* which branch of handleMessage a message takes on Run r
Branch(r, msg) ==
    IF msg.type = "stop" THEN "stop"
    ELSE IF msg.type # "begin" THEN "bad_type"
    ELSE IF msg.rid = "" \/ ~msg.valid THEN "missing_fields"
    ELSE IF r.phase = "running" /\ msg.rid # r.rid THEN "busy"
    ELSE IF msg.rid = r.rid /\ r.phase # "idle" THEN "replay"
    ELSE "start"

HandleMessageOn(st, o, ws, msg) ==
    LET b == Branch(st.r, msg)
    IN CASE b = "stop" -> IF msg.rid = st.r.rid THEN Stop(st) ELSE st
         [] b = "bad_type" -> Send(st, ws, ErrFrame("bad_type"))
         [] b = "missing_fields" -> Send(st, ws, ErrFrame("missing_fields"))
         [] b = "busy" -> Send(st, ws, ErrFrame("busy"))
         [] b = "replay" -> Replay(st, ws, AfterOf(msg.after))
         [] OTHER -> BeginRun(st, o, msg)

\* the Run that handleMessage or addSocket gets from ensure(uid) in this state
RunOf == LET e == Ensure(objs, cur, kv) IN e.objs[e.cur]

\* there is room for what handleMessage builds on msg: a Run object, a run
MayHandle(n, msg) ==
    Room(n, (IF cur = 0 THEN 2 ELSE 0) + (IF Branch(RunOf, msg) = "start" THEN 2 ELSE 0))

\* what handleMessage(uid, ws, msg) does in this state, on the Run of ensure(uid)
Handled(ws, msg) ==
    LET e == Ensure(objs, cur, kv)
    IN HandleMessageOn(St(e.objs, e.cur), e.cur, ws, msg)

HandleMessage(ws, msg) ==
    /\ ws \in connected
    /\ UNCHANGED connected
    /\ LET e == Ensure(objs, cur, kv)
           b == Branch(RunOf, msg)
       IN /\ overdue' = IF b = "start" THEN FALSE ELSE overdue
          /\ Commit(e.objs, e.cur, e.cur, Handled(ws, msg),
                    IF b = "start" THEN "reset"
                    ELSE IF b = "replay" /\ ws = Obs THEN "sync" ELSE "keep")

StopMsgs == [type : {"stop"}, rid : Rids, valid : {TRUE}, after : {NoAfter},
             provider : {"openrouter"}]
BadMsgs == [type : {"ping"}, rid : {""}, valid : {TRUE}, after : {NoAfter},
            provider : {"openrouter"}]
BeginMsgs == [type : {"begin"}, rid : Rids, valid : {TRUE}, after : Afters,
              provider : Providers]
    \cup [type : {"begin"}, rid : {"r1"}, valid : {FALSE}, after : {NoAfter},
          provider : {"openrouter"}]
    \cup [type : {"begin"}, rid : {""}, valid : {TRUE}, after : {NoAfter},
          provider : {"openrouter"}]

(***************************************************************************)
(* beginStream and the adapter it awaits.  An invocation is at "check"     *)
(* (awaiting fetch, isRunning() comes next), at "read" (awaiting a chunk   *)
(* or an event) or "settled" (beginStream's finally block has run).        *)
(***************************************************************************)
IsRunning(a) == objs[ads[a].obj].phase = "running"

\* the run-to-completion step wrote st back to the object of invocation a
CommitAd(a, st, pc, reads, text) ==
    /\ Commit(objs, cur, ads[a].obj,
              [st EXCEPT !.ads[a].pc = pc,
                         !.ads[a].n = @ + reads,
                         !.ads[a].emitted = @ \o text],
              "keep")
    /\ UNCHANGED <<connected, overdue>>

\* streamOpenRouter / streamGoogle: fetch resolves, then
\* while (isRunning()) { await reader.read() ...
AdapterCheck(a) ==
    /\ ads[a].pc = "check"
    /\ CommitAd(a, St(objs, ads[a].obj), IF IsRunning(a) THEN "read" ELSE "settled",
                0, <<>>)

\* the awaited read or event carries data: one onDelta(text, images)
AdapterEmit(a, e) ==
    /\ ads[a].pc = "read"
    /\ LET st == St(objs, ads[a].obj)
       IN CASE ads[a].kind = "openai" ->
                 \* for await (event) { if (!isRunning()) break; onDelta(event.delta) }
                 /\ e.text # <<>> /\ e.images = <<>>
                 /\ IF IsRunning(a)
                    THEN CommitAd(a, QueueDelta(st, e.text, e.images), "read", 1, e.text)
                    ELSE CommitAd(a, st, "settled", 1, <<>>)
            [] ads[a].kind = "claude" ->
                 \* stream.on('text', text => { if (isRunning()) onDelta(text) })
                 /\ e.text # <<>> /\ e.images = <<>>
                 /\ IF IsRunning(a)
                    THEN CommitAd(a, QueueDelta(st, e.text, e.images), "read", 1, e.text)
                    ELSE CommitAd(a, st, "read", 1, <<>>)
            [] OTHER ->
                 \* The awaited read hands over a chunk, also when stop or fail came
                 \* while it was awaited and the abort did not reach it: the lines go
                 \* to onDelta with no check, then the loop reads isRunning().
                 CommitAd(a, QueueDelta(st, e.text, e.images),
                          IF IsRunning(a) THEN "read" ELSE "settled", 1, e.text)

\* beginStream after the adapter returned: finally { if (r.phase === 'running') stop(r) }
Returned(st) == Stop(st)

\* the adapter returns
AdapterReturn(a) ==
    /\ ads[a].pc = "read"
    /\ CommitAd(a, Returned(St(objs, ads[a].obj)), "settled", 0, <<>>)

\* a catch block that takes no error for a cancellation
IsCancelNever(e) == FALSE

\* is the thrown error taken for a cancellation (line 168)
IsCancel(e) ==
    LET msg == IF e.message = "" THEN StreamFailed ELSE e.message
    IN e.name = "AbortError" \/ AbortRe(msg)

\* beginStream with a catch block that does nothing
ThrownUnhandled(st, e) == Stop(st)

\* beginStream after the adapter threw e: the catch block, then the finally block
Thrown(st, e) ==
    LET msg == IF e.message = "" THEN StreamFailed ELSE e.message
        s1 == IF st.r.phase = "running" /\ ~IsCancel(e) THEN Fail(st, msg) ELSE st
    IN Stop(s1)

\* the adapter throws e
AdapterThrow(a, e) ==
    /\ ads[a].pc = "read"
    /\ CommitAd(a, Thrown(St(objs, ads[a].obj), e), "settled", 0, <<>>)

(***************************************************************************)
(* Timers, the periodic sweep, the passing of time, and the HTTP poll.     *)
(***************************************************************************)
\* setTimeout(() => flush(r, false), BATCH_MS) of object o fires
FlushTimerFire(o) ==
    /\ objs[o].flushTimer
    /\ Commit(objs, cur, o, Flush(St(objs, o), FALSE), "keep")
    /\ UNCHANGED <<connected, overdue>>

\* what the timer callback and the sweep do to a running Run that is overdue:
\* fail(r, `Run timed out after ${MAX_RUN_MS / 60000} minutes.`)
TimedOutRun(o) == Fail(St(objs, o), TimedOutMsg)

\* the timeout armed by begin fires, MAX_RUN_MS after startedAt
TimeoutFire(o) ==
    /\ objs[o].timeoutTimer
    /\ overdue
    /\ Commit(objs, cur, o,
              IF objs[o].phase = "running" THEN TimedOutRun(o) ELSE St(objs, o),
              "keep")
    /\ UNCHANGED <<connected, overdue>>

\* the timeout of some Run object fires
Timeout == \E o \in DOMAIN objs : TimeoutFire(o)

\* a sweep that removes the Run whatever its phase and its sockets
SweepAll ==
    /\ cur # 0
    /\ Commit(objs, 0, cur, St(objs, cur), "keep")
    /\ UNCHANGED <<connected, overdue>>

\* setInterval(..., CLEANUP_INTERVAL_MS): the sweep over the Map
Sweep ==
    /\ cur # 0
    /\ LET st == St(objs, cur)
       IN IF st.r.phase = "running"
          THEN Commit(objs, cur, cur,
                      IF st.r.startedAt # 0 /\ overdue THEN TimedOutRun(cur) ELSE st,
                      "keep")
          ELSE Commit(objs, IF st.r.sockets = {} THEN 0 ELSE cur, cur, st, "keep")
    /\ UNCHANGED <<connected, overdue>>

\* more than MAX_RUN_MS have passed since the running Run's startedAt
Tick ==
    /\ cur # 0
    /\ objs[cur].phase = "running"
    /\ ~overdue
    /\ overdue' = TRUE
    /\ out' = NoOut
    /\ UNCHANGED <<objs, cur, kv, ads, connected, last, told>>

RECURSIVE Concat(_)
\* deltas.map(d => d.text).join('')
Concat(ds) == IF ds = <<>> THEN <<>> ELSE Head(ds).text \o Concat(Tail(ds))

RECURSIVE ConcatImages(_)
\* deltas.flatMap(d => d.images || [])
ConcatImages(ds) == IF ds = <<>> THEN <<>> ELSE Head(ds).images \o ConcatImages(Tail(ds))

\* what handlePoll(uid) returns when meta(uid) yields object o of os (0: none)
PollResult(os, o, store) ==
    IF o = 0
    THEN [rid |-> Null, seq |-> -1, phase |-> "idle", done |-> FALSE, error |-> Null,
          text |-> <<>>, images |-> <<>>]
    ELSE LET r == os[o]
             deltas == GetDeltas(store, r.rid)
         IN [rid |-> r.rid, seq |-> r.seq, phase |-> r.phase,
             done |-> r.phase \in {"done", "error", "evicted"},
             error |-> IF r.phase \in {"error", "evicted"}
                       THEN (IF r.error \in {Null, ""} THEN Unexpected ELSE r.error)
                       ELSE Null,
             text |-> Concat(deltas) \o r.pending,
             images |-> ConcatImages(deltas) \o r.pendingImages]

\* the response a GET /ws?uid= would get in this state
HandlePoll ==
    LET m == Meta(objs, cur, kv)
    IN PollResult(m.objs, m.cur, kv)

\* GET /ws?uid=: handlePoll, whose meta() may put a rebuilt object in the Map
Poll ==
    /\ LET m == Meta(objs, cur, kv)
       IN /\ objs' = m.objs
          /\ cur' = m.cur
    /\ out' = NoOut
    /\ UNCHANGED <<kv, ads, connected, overdue, last, told>>

Next ==
    \/ \E ws \in Sockets : MayEnsure(Budget) /\ AddSocket(ws)
    \/ \E ws \in Sockets : RemoveSocket(ws)
    \/ \E ws \in Sockets, msg \in StopMsgs \cup BadMsgs \cup BeginMsgs :
          MayHandle(Budget, msg) /\ HandleMessage(ws, msg)
    \/ \E a \in DOMAIN ads : AdapterCheck(a)
    \/ \E a \in DOMAIN ads, e \in Emits : Room(Budget, 1) /\ AdapterEmit(a, e)
    \/ \E a \in DOMAIN ads : AdapterReturn(a)
    \/ \E a \in DOMAIN ads, e \in Errors : AdapterThrow(a, e)
    \/ \E o \in DOMAIN objs : FlushTimerFire(o)
    \/ Timeout
    \/ Sweep
    \/ Tick
    \/ MayPoll(Budget) /\ Poll

Spec == Init /\ [][Next]_vars

(***************************************************************************)
(* The runs of one client over the SDK adapters (streamOpenAI,             *)
(* streamClaude), which leave the abort signal unused: one socket, begin   *)
(* and stop messages, text events, adapters that return; room for two runs *)
(* and an event.                                                           *)
(***************************************************************************)
SdkMsgs == [type : {"begin"}, rid : Rids, valid : {TRUE}, after : {NoAfter},
            provider : {"openai", "claude"}]

SdkNext ==
    \/ MayEnsure(Budget + 1) /\ AddSocket(Obs)
    \/ \E msg \in StopMsgs \cup SdkMsgs : MayHandle(Budget + 1, msg) /\ HandleMessage(Obs, msg)
    \/ \E a \in DOMAIN ads, e \in TextEmits : Room(Budget + 1, 1) /\ AdapterEmit(a, e)
    \/ \E a \in DOMAIN ads : AdapterReturn(a)
    \/ \E o \in DOMAIN objs : FlushTimerFire(o)

SdkSpec == Init /\ [][SdkNext]_vars

(***************************************************************************)
(* What the claims of the specification say, and what the code does.       *)
(***************************************************************************)
RECURSIVE DeltaSeqs(_)
\* the seq values of the delta frames among fs, in the order they were sent
DeltaSeqs(fs) ==
    IF fs = <<>> THEN <<>>
    ELSE (IF Head(fs).type = "delta" THEN <<Head(fs).seq>> ELSE <<>>) \o DeltaSeqs(Tail(fs))

\* each value is the one before it plus one
Contiguous(q) == \A i \in 1 .. Len(q) - 1 : q[i + 1] = q[i] + 1

\* msg is a well-formed begin
WellFormed(msg) == msg.type = "begin" /\ msg.rid # "" /\ msg.valid

\* the step is handleMessage answering the well-formed begin msg of ws by a replay
ReplayStep(ws, msg) ==
    /\ ws \in connected
    /\ WellFormed(msg)
    /\ msg.rid = RunOf.rid
    /\ RunOf.phase # "idle"
    /\ HandleMessage(ws, msg)

\* C1, as stated: the seq values of all the delta frames a socket receives for a
\* rid, live or replayed, are strictly increasing and contiguous: each frame
\* carries the seq after the one the socket received last.
C1_Original ==
    [][LET q == DeltaSeqs(out'[Obs])
       IN q # <<>> => Contiguous(q) /\ (last # NoSeq => q[1] = last + 1)]_vars

\* C1, amended: the delta frames a socket is sent in one step are contiguous; those
\* of a replay are the persisted seqs above `after`, whatever the socket received
\* before; a live frame carries the seq after the one the socket was served last,
\* by broadcast or by replay, since it opened or the run started.
C1_Windows ==
    [][LET q == DeltaSeqs(out'[Obs])
       IN q # <<>> =>
             /\ Contiguous(q)
             /\ \A msg \in BeginMsgs :
                   ReplayStep(Obs, msg) =>
                       {q[i] : i \in 1 .. Len(q)}
                           = {d.seq : d \in {x \in DeltaItems(kv, RunOf.rid) :
                                                x.seq > AfterOf(msg.after)}}
             /\ (last # NoSeq /\ ~\E msg \in BeginMsgs : ReplayStep(Obs, msg))
                   => q[1] = last + 1]_vars

\* C1: socket Obs, which was sent the live frames of a run that has failed, is
\* replayed that run's two deltas while the other socket receives nothing
C1_Witness ==
    /\ cur # 0
    /\ told
    /\ DeltaSeqs(out[Obs]) = <<0, 1>>
    /\ "s2" \in objs[cur].sockets
    /\ out["s2"] = <<>>

\* C2, as stated: once a run is terminal and nothing is left in its buffer, the
\* text of its persisted deltas in seq order is the text its own adapter passed
\* to onDelta, in call order, followed by the failure trailer if the run failed.
C2_Original ==
    \A a \in DOMAIN ads :
        LET r == objs[ads[a].obj]
        IN (r.controller = a /\ r.phase \in {"done", "error"}
                /\ r.pending = <<>> /\ ~r.flushTimer)
           => Concat(GetDeltas(kv, r.rid))
                = ads[a].emitted \o (IF r.phase = "error" THEN Trailer(r.error) ELSE <<>>)

\* the errors handleMessage answers a message with: they end no run
ProtocolErrors == {"bad_type", "missing_fields", "busy"}

\* how many of the frames fs are terminal frames: done, or err with a run's error
Terminals(fs) ==
    Cardinality({i \in 1 .. Len(fs) :
                    \/ fs[i].type = "done"
                    \/ fs[i].type = "err" /\ fs[i].message \notin ProtocolErrors})

\* C3, as stated: a socket that is in the socket set when the run becomes done or
\* error receives one terminal frame then, and none afterwards for as long as it
\* stays connected and no new run starts, whatever it sends.
C3_Original ==
    [][/\ (told' /\ ~told) => Terminals(out'[Obs]) = 1
       /\ told => Terminals(out'[Obs]) = 0]_vars

\* C3, amended: such a socket receives one terminal frame at the transition, one
\* more in answer to each begin of its own that is replayed, and none otherwise.
C3_OncePerReplay ==
    [][/\ (told' /\ ~told) => Terminals(out'[Obs]) = 1
       /\ told => Terminals(out'[Obs])
                    = (IF \E msg \in BeginMsgs : ReplayStep(Obs, msg) THEN 1 ELSE 0)]_vars

\* C3: socket Obs, told of the end of the run by the broadcast, is sent a terminal
\* frame again, by a step that is no transition (it notifies nobody)
C3_Witness ==
    /\ told
    /\ Terminals(out[Obs]) = 1
    /\ out[Ntfy] = <<>>

\* C4, as stated: once the Run in the Map is done or error, and until a begin
\* starts a new run, its seq stays, no delta key is written and no delta frame
\* is broadcast.
C4_Original ==
    [][(cur # 0 /\ objs[cur].phase \in {"done", "error"} /\ objs'[cur].phase # "running")
       => /\ objs'[cur].seq = objs[cur].seq
          /\ kv'.delta = kv.delta
          /\ (~\E ws \in Sockets, msg \in BeginMsgs : ReplayStep(ws, msg))
                => \A ws \in Sockets : DeltaSeqs(out'[ws]) = <<>>]_vars

\* C5: a well-formed begin whose rid differs from the rid of the running Run is
\* answered with the err frame busy, sent to the sender alone, and leaves the Run
\* (rid, phase, seq, error, buffers, controller, timers), the KV store and the
\* adapter invocations as they were.
C5_BusyLeavesRun ==
    \A ws \in connected, msg \in BeginMsgs :
        (cur # 0 /\ WellFormed(msg) /\ objs[cur].phase = "running"
              /\ msg.rid # objs[cur].rid)
        => Handled(ws, msg) = [r |-> objs[cur], kv |-> kv, ads |-> ads,
                               out |-> [NoOut EXCEPT ![ws] = <<ErrFrame("busy")>>]]

\* C5: socket Obs has just been answered busy, the other socket nothing, while
\* the Run is running with text in its buffer
C5_Witness ==
    /\ cur # 0
    /\ objs[cur].phase = "running"
    /\ objs[cur].pending # <<>>
    /\ out = [NoOut EXCEPT ![Obs] = <<ErrFrame("busy")>>]

\* seq > after as replay compares it: no after is -1, null counts as 0
Above(after) ==
    IF after.kind = "number" THEN after.v ELSE IF after.kind = "null" THEN 0 ELSE -1

\* C6: a well-formed begin with the rid of a Run that is not idle sends the sender
\* the persisted deltas with seq > after, each once and in ascending seq, then the
\* terminal frame if the Run is terminal; the Run, the KV store and the adapter
\* invocations stay as they were and nobody else is sent anything.
C6_ReplayOnly ==
    \A ws \in connected, msg \in BeginMsgs :
        (WellFormed(msg) /\ msg.rid = RunOf.rid /\ RunOf.phase # "idle")
        => LET r == RunOf
               h == Handled(ws, msg)
               fs == h.out[ws]
               D == {d \in DeltaItems(kv, r.rid) : d.seq > Above(msg.after)}
               nd == Cardinality(D)
               terminal == r.phase \in {"done", "error"}
           IN /\ h.r = r /\ h.kv = kv /\ h.ads = ads
              /\ \A w \in (Sockets \cup {Ntfy}) \ {ws} : h.out[w] = <<>>
              /\ Len(fs) = nd + (IF terminal THEN 1 ELSE 0)
              /\ \A i \in 1 .. nd : \E d \in D : fs[i] = DeltaFrame(d)
              /\ \A i \in 1 .. nd - 1 : fs[i].seq < fs[i + 1].seq
              /\ terminal => fs[nd + 1] = (IF r.phase = "done" THEN DoneFrame
                                            ELSE ErrFrame(r.error))

\* C6: of the two persisted deltas of a failed run, a begin with after = 0 has
\* replayed the second alone to Obs, then the err frame
C6_Witness ==
    /\ cur # 0
    /\ DeltaKey(objs[cur].rid, 0) \in DOMAIN kv.delta
    /\ DeltaSeqs(out[Obs]) = <<1>>
    /\ Len(out[Obs]) = 2
    /\ out[Obs][2] = ErrFrame(objs[cur].error)
    /\ out[Ntfy] = <<>>

\* the Run the sweep removed from the Map last
Evicted == objs[Len(objs)]

\* C7, as stated: once a terminal Run with nothing buffered has been removed from
\* the Map, the poll reports its rid with its phase, seq, error and full text, and
\* a begin with that rid is answered by a replay.
C7_Original ==
    (cur = 0 /\ objs # <<>> /\ Evicted.phase \in {"done", "error"}
        /\ Evicted.pending = <<>> /\ HasSnap(kv, Evicted.rid))
    => /\ HandlePoll.rid = Evicted.rid
       /\ HandlePoll.phase = Evicted.phase
       /\ HandlePoll.seq = Evicted.seq
       /\ HandlePoll.done
       /\ HandlePoll.text = Concat(GetDeltas(kv, Evicted.rid))
       /\ \A msg \in BeginMsgs :
             (WellFormed(msg) /\ msg.rid = Evicted.rid) => Branch(RunOf, msg) = "replay"

(***************************************************************************)
(* The same system when no adapter returns or throws and nobody sends      *)
(* stop: time passes, and a timer that is due fires.                       *)
(***************************************************************************)
HungNext ==
    \/ \E ws \in Sockets : MayEnsure(Budget) /\ AddSocket(ws)
    \/ \E ws \in Sockets : RemoveSocket(ws)
    \/ \E ws \in Sockets, msg \in BadMsgs \cup BeginMsgs :
          MayHandle(Budget, msg) /\ HandleMessage(ws, msg)
    \/ \E a \in DOMAIN ads : AdapterCheck(a)
    \/ \E a \in DOMAIN ads, e \in Emits : Room(Budget, 1) /\ AdapterEmit(a, e)
    \/ \E o \in DOMAIN objs : FlushTimerFire(o)
    \/ Timeout
    \/ Sweep
    \/ Tick
    \/ MayPoll(Budget) /\ Poll

\* a timeout timer is armed and due: the states in which Timeout can happen
TimeoutDue == \E o \in DOMAIN objs : objs[o].timeoutTimer /\ overdue

\* weak fairness of Timeout, its enabling condition written out as TimeoutDue
FairTimeout == []<>(~TimeoutDue) \/ []<><<Timeout>>_vars

HungSpec == Init /\ [][HungNext]_vars /\ WF_vars(Tick) /\ FairTimeout

\* the Run in the Map has failed by the timeout and the step told every connected socket
TimedOut ==
    /\ cur # 0
    /\ objs[cur].phase = "error"
    /\ TimedOutRe(objs[cur].error)
    /\ \A ws \in connected :
          \E i \in 1 .. Len(out[ws]) : out[ws][i] = ErrFrame(objs[cur].error)

\* C8: when no adapter returns, a Run that is running comes to phase error with
\* a message matching /timed out/, the err frame going to the connected sockets.
C8_TimesOut == (cur # 0 /\ objs[cur].phase = "running") ~> TimedOut

\* C8: the run has timed out under a connected socket while its adapter still
\* awaits its upstream
C8_Witness ==
    /\ TimedOut
    /\ Obs \in connected
    /\ objs[cur].controller # 0
    /\ ads[objs[cur].controller].pc = "read"

\* the adapter a of a running Run can throw e, which is no cancellation
CanThrow(a, e) ==
    /\ ads[a].pc = "read"
    /\ objs[ads[a].obj].phase = "running"
    /\ e.name # "AbortError"
    /\ ~AbortRe(e.message)

\* C9: when the adapter of a running Run throws a non-cancellation error with
\* message m (stream_failed for an empty message), the Run takes phase error and
\* error m; one delta is written, at the final seq, its text ending with the
\* trailer for m; each socket of the Run is sent that delta frame, then the one
\* err frame with m; the snapshot has phase error and the final seq; the poll
\* reports phase error, done, error m.
C9_FailurePath ==
    \A a \in DOMAIN ads, e \in Errors :
        CanThrow(a, e)
        => LET o == ads[a].obj
               r == objs[o]
               h == Thrown(St(objs, o), e)
               m == IF e.message = "" THEN StreamFailed ELSE e.message
               item == [seq |-> r.seq + 1, text |-> r.pending \o Trailer(m),
                        images |-> r.pendingImages]
               poll == PollResult([objs EXCEPT ![o] = h.r], cur, h.kv)
           IN /\ h.r.phase = "error" /\ h.r.error = m
              /\ h.r.seq = item.seq
              /\ DOMAIN h.kv.delta = DOMAIN kv.delta \cup {DeltaKey(r.rid, item.seq)}
              /\ h.kv.delta[DeltaKey(r.rid, item.seq)] = item
              /\ \A ws \in r.sockets : h.out[ws] = <<DeltaFrame(item), ErrFrame(m)>>
              /\ h.kv.run[r.rid].phase = "error" /\ h.kv.run[r.rid].seq = item.seq
              /\ h.kv.run[r.rid].error = m
              /\ cur = o
              /\ poll.rid = r.rid /\ poll.seq = item.seq /\ poll.phase = "error"
              /\ poll.done /\ poll.error = m

\* C9: the adapter threw boom with text in the buffer: Obs was sent the delta
\* that ends with the trailer, then the err frame
C9_Witness ==
    /\ cur # 0
    /\ objs[cur].phase = "error"
    /\ objs[cur].controller # 0
    /\ ads[objs[cur].controller].pc = "settled"
    /\ out[Obs] = <<DeltaFrame([seq |-> 0, text |-> <<"a">> \o Trailer("boom"),
                                images |-> <<>>]),
                    ErrFrame("boom")>>

\* the timeout timer of Run o, or the sweep, is about to fail the running Run o,
\* which has text in its buffer
TimeoutAhead(o) ==
    /\ objs[o].phase = "running"
    /\ objs[o].pending # <<>>
    /\ overdue
    /\ objs[o].timeoutTimer \/ (o = cur /\ objs[o].startedAt # 0)

\* C10, as stated: the timeout flushes the buffered text as a delta of its own,
\* and the trailer as the delta after it.
C10_Original ==
    \A o \in DOMAIN objs :
        TimeoutAhead(o)
        => LET r == objs[o]
               h == TimedOutRun(o)
           IN /\ h.r.seq = r.seq + 2
              /\ DeltaKey(r.rid, r.seq + 2) \in DOMAIN h.kv.delta
              /\ h.kv.delta[DeltaKey(r.rid, r.seq + 1)].text = r.pending
              /\ h.kv.delta[DeltaKey(r.rid, r.seq + 2)].text = Trailer(TimedOutMsg)

\* C10, amended: the timeout writes one delta, whose text is the buffered text
\* followed by the trailer, and sends each socket that delta frame before the
\* err frame.
C10_OneDelta ==
    \A o \in DOMAIN objs :
        TimeoutAhead(o)
        => LET r == objs[o]
               h == TimedOutRun(o)
               item == [seq |-> r.seq + 1, text |-> r.pending \o Trailer(TimedOutMsg),
                        images |-> r.pendingImages]
           IN /\ h.r.seq = item.seq
              /\ h.r.pending = <<>>
              /\ DOMAIN h.kv.delta = DOMAIN kv.delta \cup {DeltaKey(r.rid, item.seq)}
              /\ h.kv.delta[DeltaKey(r.rid, item.seq)] = item
              /\ \A ws \in r.sockets :
                    h.out[ws] = <<DeltaFrame(item), ErrFrame(TimedOutMsg)>>

\* C10: the timeout found "a" in the buffer: Obs was sent one delta frame, with
\* "a" and the trailer, then the err frame
C10_Witness ==
    /\ cur # 0
    /\ objs[cur].phase = "error"
    /\ objs[cur].controller # 0
    /\ ads[objs[cur].controller].pc = "read"
    /\ out[Obs] = <<DeltaFrame([seq |-> 0, text |-> <<"a">> \o Trailer(TimedOutMsg),
                                images |-> <<>>]),
                    ErrFrame(TimedOutMsg)>>

\* a text one token longer than BATCH_BYTES, as one onDelta call can carry
LongText == [i \in 1 .. BATCH_BYTES + 1 |-> "a"]

\* the arguments of the onDelta calls considered: short and long text, images
\* with and without text
OnDeltaArgs ==
    Emits \cup { [text |-> LongText, images |-> <<>>],
                 [text |-> <<"a">>, images |-> <<"img">>] }

\* C11: an onDelta call on a running Run that brings the buffer to BATCH_BYTES or
\* carries an image writes, in the same step, one delta (the next seq) holding the
\* whole buffer and sends it to each socket, leaving the buffer empty; between
\* steps every buffer is shorter than BATCH_BYTES and holds no image.
C11_TriggersFlush ==
    /\ \A o \in DOMAIN objs :
          Len(objs[o].pending) < BATCH_BYTES /\ objs[o].pendingImages = <<>>
    /\ \A o \in DOMAIN objs, e \in OnDeltaArgs :
          (objs[o].phase = "running"
              /\ (Len(objs[o].pending \o e.text) >= BATCH_BYTES \/ e.images # <<>>))
          => LET r == objs[o]
                 h == QueueDelta(St(objs, o), e.text, e.images)
                 item == [seq |-> r.seq + 1, text |-> r.pending \o e.text,
                          images |-> e.images]
                 key == DeltaKey(r.rid, item.seq)
             IN /\ h.r = [r EXCEPT !.seq = item.seq, !.pending = <<>>,
                                   !.flushTimer = FALSE]
                /\ DOMAIN h.kv.delta = DOMAIN kv.delta \cup {key}
                /\ h.kv.delta[key] = item
                /\ \A k \in DOMAIN kv.delta \ {key} : h.kv.delta[k] = kv.delta[k]
                /\ \A ws \in Sockets :
                      h.out[ws] = IF ws \in r.sockets THEN <<DeltaFrame(item)>> ELSE <<>>

\* C11: the second text of a run brought the buffer to BATCH_BYTES: Obs was sent
\* the one delta with both texts, and the run goes on with an empty buffer
C11_Witness ==
    /\ cur # 0
    /\ objs[cur].phase = "running"
    /\ objs[cur].pending = <<>>
    /\ ~objs[cur].flushTimer
    /\ out[Obs] = <<DeltaFrame([seq |-> 0, text |-> <<"a", "a">>, images |-> <<>>])>>

(***************************************************************************)
(* Sockets, runs and adapters with the flush timers firing: a timer that   *)
(* stays armed fires in the end (setTimeout, BATCH_MS).  The run timeout   *)
(* and the sweep are left to the specifications above.                     *)
(***************************************************************************)
\* the Run objects a behaviour can build
Objects == 1 .. (Budget \div 2)

\* the flush timer of Run object o fires
FlushTimer(o) == o \in DOMAIN objs /\ FlushTimerFire(o)

\* the begin messages that start or replay a run
StartMsgs == [type : {"begin"}, rid : Rids, valid : {TRUE}, after : {NoAfter},
              provider : Providers]

FlushNext ==
    \/ \E ws \in Sockets : MayEnsure(Budget) /\ AddSocket(ws)
    \/ \E ws \in Sockets : RemoveSocket(ws)
    \/ \E ws \in Sockets, msg \in StopMsgs \cup StartMsgs :
          MayHandle(Budget, msg) /\ HandleMessage(ws, msg)
    \/ \E a \in DOMAIN ads : AdapterCheck(a)
    \/ \E a \in DOMAIN ads, e \in Emits : Room(Budget, 1) /\ AdapterEmit(a, e)
    \/ \E a \in DOMAIN ads : AdapterReturn(a)
    \/ \E a \in DOMAIN ads, e \in Errors : AdapterThrow(a, e)
    \/ \E o \in DOMAIN objs : FlushTimerFire(o)

FlushSpec == Init /\ [][FlushNext]_vars /\ \A o \in Objects : WF_vars(FlushTimer(o))

\* p is the beginning of q
Prefix(p, q) == Len(p) <= Len(q) /\ SubSeq(q, 1, Len(p)) = p

\* the text buffered in running Run o is kept in the buffer by the step, or goes, as
\* the beginning of its text, into the delta written at the next seq and sent to
\* the sockets of the Run
Kept(o) ==
    LET r == objs[o]
        key == DeltaKey(r.rid, r.seq + 1)
    IN \/ Prefix(r.pending, objs'[o].pending) /\ objs'[o].rid = r.rid
       \/ /\ key \in DOMAIN kv'.delta
          /\ Prefix(r.pending, kv'.delta[key].text)
          /\ \A ws \in r.sockets :
                \E i \in 1 .. Len(out'[ws]) : out'[ws][i] = DeltaFrame(kv'.delta[key])

\* C12: text buffered in a running Run has its flush timer armed, is never
\* dropped (each step keeps it in the buffer or persists and broadcasts it in a
\* delta), and, the timers firing, leaves the buffer in the end.
C12_FlushedInTheEnd ==
    /\ [](\A o \in DOMAIN objs :
             (objs[o].phase = "running" /\ objs[o].pending # <<>>) => objs[o].flushTimer)
    /\ [][\A o \in DOMAIN objs :
             (objs[o].phase = "running" /\ objs[o].pending # <<>>) => Kept(o)]_vars
    /\ \A o \in Objects :
          (o \in DOMAIN objs /\ objs[o].phase = "running" /\ objs[o].pending # <<>>)
              ~> (o \in DOMAIN objs /\ objs[o].pending = <<>>)

\* C12: the flush timer has fired on the one text of a running Run: the text is
\* persisted and was sent to Obs, the buffer is empty and the timer idle
C12_Witness ==
    /\ cur # 0
    /\ objs[cur].phase = "running"
    /\ objs[cur].pending = <<>>
    /\ ~objs[cur].flushTimer
    /\ objs[cur].seq = 0
    /\ out[Obs] = <<DeltaFrame([seq |-> 0, text |-> <<"a">>, images |-> <<>>])>>

\* the thrown errors that are cancellations: AbortError by name, or a message
\* matching /abort/i
Cancellations ==
    { e \in Errors \cup {[name |-> "Error", message |-> "aborted"]} :
        e.name = "AbortError" \/ AbortRe(e.message) }

\* h is Run r ended as a normal done: the buffer flushed into one delta if it held
\* anything, phase done without error, the controller aborted, the snapshot
\* written, each socket sent the flushed delta and then the one done frame
EndedDone(r, h) ==
    LET buffered == r.pending # <<>> \/ r.pendingImages # <<>>
        item == [seq |-> r.seq + 1, text |-> r.pending, images |-> r.pendingImages]
        key == DeltaKey(r.rid, item.seq)
        seq == IF buffered THEN item.seq ELSE r.seq
    IN /\ h.r = [r EXCEPT !.phase = "done", !.error = Null, !.seq = seq,
                          !.pending = <<>>, !.pendingImages = <<>>,
                          !.flushTimer = FALSE, !.timeoutTimer = FALSE]
       /\ h.kv.delta = IF buffered THEN (key :> item) @@ kv.delta ELSE kv.delta
       /\ h.kv.run[r.rid] = [rid |-> r.rid, seq |-> seq, phase |-> "done",
                             error |-> Null, startedAt |-> r.startedAt]
       /\ h.ads = [ads EXCEPT ![r.controller].aborted = TRUE]
       /\ \A ws \in Sockets :
             h.out[ws] = IF ws \notin r.sockets THEN <<>>
                         ELSE (IF buffered THEN <<DeltaFrame(item)>> ELSE <<>>)
                                 \o <<DoneFrame>>
       /\ h.out[Ntfy] = <<Note("ended")>>

\* C13: a stop with the rid of the running Run, and a throw of the adapter of a
\* running Run that is a cancellation (AbortError, or a message matching
\* /abort/i), end the Run as a normal done: buffer flushed, phase done, error
\* null, controller aborted, snapshot written, one done frame to each socket; no
\* trailer, no err frame.
C13_CancelIsDone ==
    /\ \A ws \in connected, msg \in StopMsgs :
          (cur # 0 /\ objs[cur].phase = "running" /\ msg.rid = objs[cur].rid)
          => EndedDone(objs[cur], Handled(ws, msg))
    /\ \A a \in DOMAIN ads, e \in Cancellations :
          (ads[a].pc = "read" /\ objs[ads[a].obj].phase = "running")
          => EndedDone(objs[ads[a].obj], Thrown(St(objs, ads[a].obj), e))

\* C13: a stop came with "a" in the buffer of the running Run: Obs was sent that
\* delta and the done frame, and the adapter, its controller aborted, still
\* awaits its read
C13_Witness ==
    /\ cur # 0
    /\ objs[cur].phase = "done"
    /\ objs[cur].controller # 0
    /\ ads[objs[cur].controller].pc = "read"
    /\ ads[objs[cur].controller].aborted
    /\ out[Obs] = <<DeltaFrame([seq |-> 0, text |-> <<"a">>, images |-> <<>>]), DoneFrame>>
    /\ out[Ntfy] = <<Note("ended")>>

\* C14, as stated: a throw from the adapter of a running Run whose controller has
\* not been aborted ends the Run in phase error with an err frame to each socket,
\* whatever the name or the message of the error.
C14_Original ==
    \A a \in DOMAIN ads, e \in Errors \cup Cancellations :
        (ads[a].pc = "read" /\ ~ads[a].aborted
            /\ objs[ads[a].obj].phase = "running" /\ objs[ads[a].obj].controller = a)
        => LET r == objs[ads[a].obj]
               h == Thrown(St(objs, ads[a].obj), e)
           IN /\ h.r.phase = "error"
              /\ \A ws \in r.sockets :
                    \E i \in 1 .. Len(h.out[ws]) : h.out[ws][i].type = "err"

\* C15: a stop whose rid is not the Run's, and a stop or a fail entered on a Run
\* that is not running (from a stop message, from beginStream after its adapter
\* returned or threw, from the timeout), leave the Run, the KV store and the
\* adapter invocations as they were and send nothing: no frame, no notification.
C15_GuardedNoOps ==
    /\ \A ws \in connected, msg \in StopMsgs :
          (cur # 0 /\ (msg.rid # objs[cur].rid \/ objs[cur].phase # "running"))
          => Handled(ws, msg) = St(objs, cur)
    /\ \A o \in DOMAIN objs :
          objs[o].phase # "running"
          => /\ Stop(St(objs, o)) = St(objs, o)
             /\ \A m \in {"boom", "", TimedOutMsg} : Fail(St(objs, o), m) = St(objs, o)
             /\ Returned(St(objs, o)) = St(objs, o)
             /\ \A e \in Errors : Thrown(St(objs, o), e) = St(objs, o)

\* C15: the Run is done and Obs, which was sent the done frame, is still
\* connected; the last step (a second stop among others) sent nothing
C15_Witness ==
    /\ cur # 0
    /\ objs[cur].phase = "done"
    /\ told
    /\ Obs \in connected
    /\ out = NoOut

(***************************************************************************)
(* One client that begins run after run over one socket: the adapters emit *)
(* and return, the socket closes and opens again, the sweep evicts; room   *)
(* for three runs on one Run object, or two runs with an eviction between. *)
(***************************************************************************)
RestartNext ==
    \/ MayEnsure(Budget + 4) /\ AddSocket(Obs)
    \/ RemoveSocket(Obs)
    \/ \E msg \in StartMsgs : MayHandle(Budget + 4, msg) /\ HandleMessage(Obs, msg)
    \/ \E a \in DOMAIN ads : AdapterCheck(a)
    \/ \E a \in DOMAIN ads, e \in Emits : Room(Budget + 4, 1) /\ AdapterEmit(a, e)
    \/ \E a \in DOMAIN ads : AdapterReturn(a)
    \/ \E o \in DOMAIN objs : FlushTimerFire(o)
    \/ Sweep

RestartSpec == Init /\ [][RestartNext]_vars

\* C16, as stated: a delta key, once written, keeps its delta: no step writes the
\* key again with another content.
C16_Original ==
    [][\A k \in DOMAIN kv.delta :
          k \in DOMAIN kv'.delta /\ kv'.delta[k] = kv.delta[k]]_vars

\* the deltas the present run of Run r has generated: seq 0 to r.seq under its rid
OwnDeltas(r) == SortBySeq({d \in DeltaItems(kv, r.rid) : d.seq <= r.seq})

\* C17, as stated: for a uid that has a Run, the poll reports the Run's seq, done
\* exactly when the phase is terminal, an error only when the phase is error, and
\* as text the texts, in seq order, of the deltas the present run generated,
\* followed by the buffer.
C17_Original ==
    cur # 0
    => LET r == objs[cur]
       IN /\ HandlePoll.seq = r.seq
          /\ HandlePoll.done = (r.phase \in {"done", "error", "evicted"})
          /\ (HandlePoll.error # Null => r.phase \in {"error", "evicted"})
          /\ HandlePoll.text = Concat(OwnDeltas(r)) \o r.pending

\* the messages handleMessage rejects: an unknown type, a begin without rid, a
\* begin without apiKey or without a non-empty messages array
Rejected == BadMsgs \cup {msg \in BeginMsgs : msg.rid = "" \/ ~msg.valid}

\* C18: a message of unknown type, or a begin lacking rid, apiKey or messages, is
\* answered with the one err frame bad_type or missing_fields, sent to the sender
\* alone, and leaves the Run, in whatever phase, the KV store and the adapter
\* invocations as they were.
C18_RejectedLeavesRun ==
    \A ws \in connected, msg \in Rejected :
        cur # 0
        => Handled(ws, msg)
             = [St(objs, cur) EXCEPT
                  !.out[ws] = <<ErrFrame(IF msg.type = "begin" THEN "missing_fields"
                                         ELSE "bad_type")>>]

\* C18: a begin with missing fields has just been answered to Obs, and to nobody
\* else, while the Run is running with text in its buffer
C18_Witness ==
    /\ cur # 0
    /\ objs[cur].phase = "running"
    /\ objs[cur].pending # <<>>
    /\ out = [NoOut EXCEPT ![Obs] = <<ErrFrame("missing_fields")>>]

(***************************************************************************)
(* A client whose begin messages carry messages of every shape of content: *)
(* the sanitized array is what begin stores as the prompt of the run.      *)
(* Room for one run.                                                       *)
(***************************************************************************)
\* the longest list of parts of a content
MaxParts == 2

Strings == {<<>>, <<" ">>, <<"x">>, <<" ", "x">>}

\* text parts with a text, blank or not, or without one; a part of another type
Parts == [type : {"text"}, has : {TRUE}, text : Strings]
            \cup {[type |-> "text", has |-> FALSE, text |-> <<>>],
                  [type |-> "image_url", has |-> FALSE, text |-> <<>>]}

PartLists == UNION {[1 .. n -> Parts] : n \in 0 .. MaxParts}

Contents ==
    {StringContent(s) : s \in Strings}
        \cup {ListContent(ps) : ps \in PartLists}
        \cup {OtherContent("null"), OtherContent("object")}

\* messages arrays of one message, and of two
MessageArrays ==
    {<<[role |-> "user", content |-> c]>> : c \in Contents}
        \cup {PlainMessages \o <<[role |-> "user", content |-> c]>> : c \in Contents}

PromptMsgs == [type : {"begin"}, rid : Rids, valid : {TRUE}, after : {NoAfter},
               provider : Providers, messages : MessageArrays]

SanitizeNext ==
    \/ MayEnsure(Budget - 2) /\ AddSocket(Obs)
    \/ \E msg \in PromptMsgs : MayHandle(Budget - 2, msg) /\ HandleMessage(Obs, msg)
    \/ \E a \in DOMAIN ads : AdapterCheck(a)
    \/ \E a \in DOMAIN ads : AdapterReturn(a)

SanitizeSpec == Init /\ [][SanitizeNext]_vars

\* the content holds a text that is not blank: a non-blank string, or a list with
\* a part of type text whose text is not blank
HasText(content) ==
    \/ content.kind = "string" /\ ~Blank(content.s)
    \/ /\ content.kind = "list"
       /\ \E i \in 1 .. Len(content.parts) :
             /\ content.parts[i].type = "text"
             /\ content.parts[i].has
             /\ ~Blank(content.parts[i].text)

\* C19, as stated: every message of a sanitized messages array holds a text that
\* is not blank, whatever the shape of its content was.
C19_Original ==
    \A rid \in DOMAIN kv.prompt :
        \A i \in 1 .. Len(kv.prompt[rid]) : HasText(kv.prompt[rid][i].content)

\* the step removes the Run from the Map
Removed == cur # 0 /\ cur' = 0

MaxLines == 2

LF == "\n"

\* the lines of a body: events with text a and b, an empty line, JSON without
\* the data prefix
Lines == { <<"d", "{", "a", "}">>, <<"d", "{", "b", "}">>, <<>>, <<"{", "a", "}">> }

RECURSIVE Bodies(_)
\* the bodies of n lines, each ended by LF
Bodies(n) ==
    IF n = 0 THEN {<<>>}
    ELSE {l \o <<LF>> \o b : l \in Lines, b \in Bodies(n - 1)}

Streams == UNION {Bodies(n) : n \in 1 .. MaxLines}

RECURSIVE Split(_)
\* buf.split('\n'): the pieces between the LFs, one more than there are LFs
Split(q) ==
    IF q = <<>> THEN << <<>> >>
    ELSE LET rest == Split(Tail(q))
         IN IF Head(q) = LF THEN << <<>> >> \o rest
            ELSE << <<Head(q)>> \o rest[1] >> \o Tail(rest)

\* the text a line hands to onDelta: that of its JSON when the line starts with
\* the data prefix and the JSON parses, none otherwise
LineText(line) ==
    IF /\ Len(line) >= 4
       /\ line[1] = "d" /\ line[2] = "{" /\ line[Len(line)] = "}"
       /\ \A i \in 3 .. Len(line) - 1 : line[i] \in {"a", "b"}
    THEN SubSeq(line, 3, Len(line) - 1)
    ELSE <<>>

\* the lines the adapter of this kind works off after a read, given the pieces of
\* its buf: streamOpenRouter pops the last piece first (lines 82-84),
\* streamGoogle walks all of buf.split('\n') (line 218)
LinesRead(kind, pieces) ==
    IF kind = "google" THEN pieces ELSE SubSeq(pieces, 1, Len(pieces) - 1)

RECURSIVE OnDeltas(_, _)
\* onDelta for the text of each line in turn
OnDeltas(st, lines) ==
    IF lines = <<>> THEN st
    ELSE OnDeltas(QueueDelta(st, LineText(Head(lines)), <<>>), Tail(lines))

RECURSIVE Texts(_)
\* the texts of the lines, in order
Texts(lines) == IF lines = <<>> THEN <<>> ELSE LineText(Head(lines)) \o Texts(Tail(lines))

\* one turn of the read loop: the awaited read hands over chunk
AdapterRead(a, chunk) ==
    /\ ads[a].pc = "read"
    /\ ads[a].kind \in {"openrouter", "google"}
    /\ LET pieces == Split(ads[a].buf \o chunk)
           lines == LinesRead(ads[a].kind, pieces)
           st == [St(objs, ads[a].obj) EXCEPT !.ads[a].buf = pieces[Len(pieces)],
                                              !.ads[a].wire = @ \o chunk]
       IN CommitAd(a, OnDeltas(st, lines),
                   IF IsRunning(a) THEN "read" ELSE "settled", 1, Texts(lines))

\* the read hands over the next n characters of a body that goes on as s
ReadOf(a, s, n) ==
    /\ Prefix(ads[a].wire, s)
    /\ Len(ads[a].wire) + n <= Len(s)
    /\ AdapterRead(a, SubSeq(s, Len(ads[a].wire) + 1, Len(ads[a].wire) + n))

SseMsgs == [type : {"begin"}, rid : {"r1"}, valid : {TRUE}, after : {NoAfter},
            provider : {"openrouter", "google"}]

SseNext ==
    \/ MayEnsure(Budget + 2) /\ AddSocket(Obs)
    \/ \E msg \in SseMsgs : MayHandle(Budget + 2, msg) /\ HandleMessage(Obs, msg)
    \/ \E a \in DOMAIN ads : AdapterCheck(a)
    \/ \E a \in DOMAIN ads, s \in Streams, n \in 1 .. (5 * MaxLines) :
          Room(Budget + 2, 1) /\ ReadOf(a, s, n)
    \/ \E a \in DOMAIN ads : AdapterReturn(a)
    \/ \E o \in DOMAIN objs : FlushTimerFire(o)

SseSpec == Init /\ [][SseNext]_vars

\* the texts of the complete lines of a body read so far, in order
Expected(wire) ==
    LET pieces == Split(wire) IN Texts(SubSeq(pieces, 1, Len(pieces) - 1))

\* C21, as stated: whenever the reads of an sse adapter end on a line end, the
\* texts it has handed to onDelta are those of the lines read, each once and in
\* order, however the body was cut into reads.
C21_Original ==
    \A a \in DOMAIN ads :
        (ads[a].wire # <<>> /\ ads[a].wire[Len(ads[a].wire)] = LF)
        => ads[a].emitted = Expected(ads[a].wire)

\* The part of C21 about streamOpenRouter alone: after every read the texts
\* handed to onDelta are those of the complete lines read so far, in order, and
\* buf holds the unfinished line (under SseSpec, whose reads carry the bytes).
C21_OpenRouterPart ==
    \A a \in DOMAIN ads :
        ads[a].kind = "openrouter"
        => /\ ads[a].emitted = Expected(ads[a].wire)
           /\ ads[a].buf = Split(ads[a].wire)[Len(Split(ads[a].wire))]

(***************************************************************************)
(* The timers and the buffers of a Run that is not running                 *)
(***************************************************************************)

\* C22, as stated: in every reachable state a Run whose phase is not running
\* has neither flushTimer nor timeoutTimer armed, and its pending and
\* pendingImages are empty.
C22_Original ==
    \A o \in DOMAIN objs :
        objs[o].phase # "running"
        => /\ ~objs[o].flushTimer
           /\ ~objs[o].timeoutTimer
           /\ objs[o].pending = <<>>
           /\ objs[o].pendingImages = <<>>

\* The part of C22 about the timeout timer alone.
C22_TimeoutPart ==
    \A o \in DOMAIN objs : objs[o].phase # "running" => ~objs[o].timeoutTimer

(***************************************************************************)
(* The adapter invocations of one uid                                      *)
(***************************************************************************)
\* invocation a was started by an earlier begin than the one that set up the
\* present run of its Run object, and beginStream still awaits it
Earlier(a) == ads[a].pc # "settled" /\ objs[ads[a].obj].controller # a

\* C23, as stated: an adapter invocation of an earlier run that has not settled
\* never sees isRunning() true again, and neither its return nor its throw moves
\* the Run (by now in its next run) or sends a frame; so at most one invocation
\* per uid observes isRunning() true.
C23_Original ==
    \A a \in DOMAIN ads :
        Earlier(a)
        => LET st == St(objs, ads[a].obj)
           IN /\ ~IsRunning(a)
              /\ Returned(st) = st
              /\ \A e \in Errors : Thrown(st, e) = st

\* The part of C23 about the late return alone: the return of an earlier
\* invocation leaves the phase of the run that is running now.
C23_LateReturn ==
    \A a \in DOMAIN ads :
        (Earlier(a) /\ IsRunning(a))
        => Returned(St(objs, ads[a].obj)).r.phase = "running"

\* The part of C23 about isRunning() alone: no two invocations awaited by
\* beginStream observe isRunning() true in the same state.
C23_OneObserver ==
    \A a, b \in DOMAIN ads :
        (ads[a].pc # "settled" /\ ads[b].pc # "settled" /\ IsRunning(a) /\ IsRunning(b)
            /\ ads[a].obj = ads[b].obj)
        => a = b

(***************************************************************************)
(* The sockets of the Run in the Map                                       *)
(***************************************************************************)

\* C24: in every reachable state the socket set of the uid's Run in the Map is
\* the set of the uid's sockets opened and not yet closed; with no Run in the
\* Map no socket is open; an object removed from the Map holds no socket; and
\* the frames of a step go to open sockets only.
C24_SocketsAreConnected ==
    /\ cur # 0 => objs[cur].sockets = connected
    /\ cur = 0 => connected = {}
    /\ \A o \in DOMAIN objs : o # cur => objs[o].sockets = {}
    /\ \A ws \in Sockets : out[ws] # <<>> => ws \in connected

\* C24: the sweep has removed a Run from the Map and a socket opened since has
\* got a new one; of the two sockets one is open and is the Run's only socket,
\* and the done frame of its run has just been broadcast to it alone.
C24_Witness ==
    /\ Len(objs) = 2
    /\ cur = 2
    /\ connected = {"s2"}
    /\ objs[cur].sockets = {"s2"}
    /\ objs[cur].phase = "done"
    /\ out["s2"] = <<DoneFrame>>
    /\ out["s1"] = <<>>

====
